---- MODULE Spec2Model ----
(***************************************************************************)
(* A model of jconf2dot.py: the walker that turns a forest of VR Juggler   *)
(* jconf documents into a graphviz "dot" description.                      *)
(*                                                                         *)
(* Strings the program transforms character by character (element names,  *)
(* file names) are sequences of one-character strings; the value None of   *)
(* Python is the one-element sequence <<"None">>, which is no string of    *)
(* characters.  Tag names are sequences of word tokens, the namespace      *)
(* being the first token.                                                  *)
(***************************************************************************)
EXTENDS Integers, Sequences, FiniteSets, TLC

VARIABLES
    files,          \* sys.argv[1:], the list handed to processFiles
    fileIdx,        \* position of the loop of processFiles in files
    docs,           \* what et.parse returns for each file name
    stack,          \* the active calls of processFile, innermost last
    links,          \* the global list links
    definedNodes,   \* the global list definedNodes
    usedNodes,      \* the global list usedNodes
    out,            \* the lines printed to standard output so far
    pc,             \* where the run is
    failure,        \* the exception that ended the run, or "none"
    sanName,        \* the sanitizer alone: a name handed to addLink
    sanOut,         \* the sanitizer alone: sanitize(sanName), as addLink stores it
    sanPrinted,     \* the sanitizer alone: the identifier outputNode prints for sanOut
    sanPc           \* the sanitizer alone: position

vars == <<files, fileIdx, docs, stack, links, definedNodes, usedNodes, out,
          pc, failure, sanName, sanOut, sanPrinted, sanPc>>

walkVars == <<files, fileIdx, docs, stack, links, definedNodes, usedNodes, out,
              pc, failure>>

sanVars == <<sanName, sanOut, sanPrinted, sanPc>>

None == <<"None">>

----------------------------------------------------------------------------
(* str.replace(old, new): leftmost, non-overlapping occurrences, one pass. *)
Replace(s, old, new) ==
    LET R[t \in Seq(STRING)] ==
            IF Len(t) < Len(old) THEN t
            ELSE IF SubSeq(t, 1, Len(old)) = old
                 THEN new \o R[SubSeq(t, Len(old) + 1, Len(t))]
                 ELSE <<Head(t)>> \o R[Tail(t)]
    IN  R[s]

DotJconf == <<".", "j", "c", "o", "n", "f">>

(* A sanitize that forgets the replacement of "-". *)
sanitizeNoDash(name) ==
    Replace(Replace(Replace(Replace(Replace(name,
        <<" ">>, <<"_">>), DotJconf, <<>>), <<"/">>, <<"_">>),
        <<"\\">>, <<"_">>), <<".">>, <<"_">>)

(* A sanitize that forgets the replacement of ".". *)
sanitizeNoDot(name) ==
    Replace(Replace(Replace(Replace(Replace(name,
        <<" ">>, <<"_">>), DotJconf, <<>>), <<"/">>, <<"_">>),
        <<"\\">>, <<"_">>), <<"-">>, <<"_">>)

sanitize(name) ==
    Replace(Replace(Replace(Replace(Replace(Replace(name,
        <<" ">>, <<"_">>), DotJconf, <<>>), <<"/">>, <<"_">>),
        <<"\\">>, <<"_">>), <<".">>, <<"_">>), <<"-">>, <<"_">>)

(* The identifier at the head of the line outputNode prints (line 50). *)
outputNodeId(name) == sanitize(name)

----------------------------------------------------------------------------
(* The sanitizer on its own: names are concatenations of at most MaxPieces *)
(* pieces, among them the fragments that can join into a new ".jconf".     *)
MaxPieces == 3

Pieces ==
    { <<" ">>, <<"/">>, <<"\\">>, <<".">>, <<"-">>, <<"_">>, <<"a">>,
      <<".", "j", "c">>, <<"o", "n", "f">>, DotJconf }

RECURSIVE NamesOf(_)
NamesOf(n) ==
    IF n = 0 THEN { <<>> }
    ELSE LET shorter == NamesOf(n - 1)
         IN  shorter \cup { s \o p : s \in shorter, p \in Pieces }

SanNames == NamesOf(MaxPieces)

BadChars == { " ", "/", "\\", ".", "-" }

WalkIdle ==
    /\ files = <<>>
    /\ fileIdx = 1
    /\ docs = <<>>
    /\ stack = <<>>
    /\ links = <<>>
    /\ definedNodes = <<>>
    /\ usedNodes = <<>>
    /\ out = <<>>
    /\ pc = "idle"
    /\ failure = "none"

SanIdle ==
    /\ sanName = <<>>
    /\ sanOut = <<>>
    /\ sanPrinted = <<>>
    /\ sanPc = "idle"

SanInit ==
    /\ WalkIdle
    /\ sanName \in SanNames
    /\ sanOut = <<>>
    /\ sanPrinted = <<>>
    /\ sanPc = "name"

(* addLink, line 64: the sanitized name goes into usedNodes. *)
SanAddLink ==
    /\ sanPc = "name"
    /\ sanOut' = sanitize(sanName)
    /\ sanPc' = "used"
    /\ UNCHANGED <<sanName, sanPrinted>>
    /\ UNCHANGED walkVars

(* addUndefinedNodes, line 159: outputNode on the entry of usedNodes. *)
SanOutputNode ==
    /\ sanPc = "used"
    /\ sanPrinted' = outputNodeId(sanOut)
    /\ sanPc' = "printed"
    /\ UNCHANGED <<sanName, sanOut>>
    /\ UNCHANGED walkVars

SanNext == SanAddLink \/ SanOutputNode

SanSpec == SanInit /\ [][SanNext]_vars

----------------------------------------------------------------------------
(* Tag names.  ns is the namespace prefix of line 20; a kind is the        *)
(* sequence of the words of its name.                                      *)
ns == "{http://www.vrjuggler.org/jccl/xsd/3.0/configuration}"

(* one `x in y` of Python on sequences: x occurs in y as a contiguous run *)
Contains(sub, s) ==
    \E k \in 0..(Len(s) - Len(sub)) : SubSeq(s, k + 1, k + Len(sub)) = sub

ignoredElements ==
    << <<"input", "manager">>,
       <<"display", "system">>,
       <<"corba", "remote", "reconfig">>,
       <<"display", "window">>,
       <<"cluster", "node">>,
       <<"cluster", "manager">>,
       <<"start", "barrier", "plugin">>,
       <<"application", "data">> >>

(* An ignore list that has lost display_window. *)
ignoredTagsShort ==
    { <<ns>> \o ignoredElements[k] : k \in (DOMAIN ignoredElements) \ {4} }

(* [ns + x for x in ignoredElements], line 113 *)
ignoredTags == { <<ns>> \o ignoredElements[k] : k \in DOMAIN ignoredElements }

(* elt.findtext(ns + child): the text of the child, None when it is absent *)
findtext(elt, child) == elt.kids[child]

(* outputNode, lines 36-50: the line it prints *)
outputNode(name, eltType, style) ==
    LET styled ==
            IF Contains(<<"proxy">>, eltType) THEN style
            ELSE IF Contains(<<"alias">>, eltType)
                 THEN style \o <<"style=filled,color=lightgray,">>
            ELSE IF Contains(<<"user">>, eltType)
                 THEN style \o <<"shape=egg,">>
            ELSE style \o <<"shape=box3d,">>
        label == IF eltType = <<>> THEN <<name>> ELSE <<name, eltType>>
    IN  [t |-> "node", id |-> outputNodeId(name), style |-> styled, label |-> label]

(* addLink, lines 62-68: sanitize(None) raises AttributeError before       *)
(* anything is appended.                                                   *)
addLinkRaises(src, dest) == src = None \/ dest = None

addLinkUsed(used, src, dest) == used \o <<sanitize(src), sanitize(dest)>>

addLinkLinks(lnks, src, dest, label) ==
    Append(lnks, [src |-> sanitize(src), dest |-> sanitize(dest), label |-> label])

(* The handlers, lines 70-91: the call of addLink each one makes. *)
handleAlias(elt) ==
    [src |-> elt.name, dest |-> findtext(elt, "proxy"), label |-> None]

handleProxy(elt, proxyType) ==
    LET unit == findtext(elt, "unit")
        label == IF proxyType = None THEN None
                 ELSE IF unit # None THEN proxyType \o <<" Unit ">> \o unit
                 ELSE proxyType
    IN  [src |-> elt.name, dest |-> findtext(elt, "device"), label |-> label]

handleUser(elt) ==
    [src |-> elt.name, dest |-> findtext(elt, "head_position"),
     label |-> <<"Head Position">>]

handleSimulated(elt) ==
    [src |-> elt.name, dest |-> findtext(elt, "keyboard_mouse_proxy"),
     label |-> <<"uses">>]

(* line 139: ns + "simulated" in elt.tag *)
isSimulated(tag) == Contains(<<ns, "simulated">>, tag)

(* lines 121-140: the calls of addLink made for one element, in order *)
dispatch(elt) ==
    IF elt.tag = <<ns, "alias">> THEN <<handleAlias(elt)>>
    ELSE IF elt.tag = <<ns, "position", "proxy">> THEN <<handleProxy(elt, <<"Position">>)>>
    ELSE IF elt.tag = <<ns, "analog", "proxy">> THEN <<handleProxy(elt, <<"Analog">>)>>
    ELSE IF elt.tag = <<ns, "digital", "proxy">> THEN <<handleProxy(elt, <<"Digital">>)>>
    ELSE IF elt.tag = <<ns, "keyboard", "mouse", "proxy">> THEN <<handleProxy(elt, None)>>
    ELSE IF elt.tag = <<ns, "user">> THEN <<handleUser(elt)>>
    ELSE IF isSimulated(elt.tag) THEN <<handleSimulated(elt)>>
    ELSE <<>>

(* An addNode that also prints, on the spot, the edge of the element. *)
addNodePrintsEdge(elt) ==
    << outputNode(elt.name, Replace(elt.tag, <<ns>>, <<>>), <<>>) >>
    \o (IF dispatch(elt) # <<>> /\ ~addLinkRaises(dispatch(elt)[1].src, dispatch(elt)[1].dest)
        THEN << [t |-> "edge",
                 link |-> [src |-> sanitize(dispatch(elt)[1].src),
                           dest |-> sanitize(dispatch(elt)[1].dest),
                           label |-> dispatch(elt)[1].label]] >>
        ELSE <<>>)

(* addNode, lines 52-60: what it prints and what it appends to definedNodes *)
addNodePrints(elt) ==
    << outputNode(elt.name, Replace(elt.tag, <<ns>>, <<>>), <<>>) >>

addNodeDefined(defined, elt) == Append(defined, sanitize(elt.name))

----------------------------------------------------------------------------
(* The input: file names, elements and document bodies.                    *)
NoKids ==
    [proxy |-> None, device |-> None, unit |-> None, head_position |-> None,
     keyboard_mouse_proxy |-> None]

AllKids(text) ==
    [proxy |-> text, device |-> text, unit |-> <<"1">>, head_position |-> text,
     keyboard_mouse_proxy |-> text]

Elements ==
    { [tag |-> <<ns, "position", "proxy">>, name |-> <<"p", " ", "1">>,
       kids |-> [NoKids EXCEPT !.device = <<"d">>, !.unit = <<"2">>]],
      [tag |-> <<ns, "user">>, name |-> <<"u">>, kids |-> NoKids],
      [tag |-> <<ns, "simulated", "glove">>, name |-> <<"s">>,
       kids |-> [NoKids EXCEPT !.keyboard_mouse_proxy = <<"k", ".", "m">>]],
      [tag |-> <<ns, "pinch", "simulated", "glove">>, name |-> <<"g">>,
       kids |-> [NoKids EXCEPT !.keyboard_mouse_proxy = <<"k", ".", "m">>]],
      [tag |-> <<ns, "display", "window">>, name |-> <<"w">>,
       kids |-> AllKids(<<"d">>)] }

FileNames ==
    { <<"t", ".", "j", "c", "o", "n", "f">>,
      <<"c", "/", "i", ".", "j", "c", "o", "n", "f">> }

(* The lists of files handed to processFiles: every list, repetitions      *)
(* included, of at most as many entries as there are file names.           *)
MaxFiles == Cardinality(FileNames)
MaxChildren == 2
MaxElts == 1
RecursionLimit == 2

RECURSIVE SeqsUpTo(_, _)
SeqsUpTo(S, n) ==
    IF n = 0 THEN { <<>> }
    ELSE LET shorter == SeqsUpTo(S, n - 1)
         IN  shorter \cup { Append(s, x) : s \in { q \in shorter : Len(q) = n - 1 }, x \in S }

SeqsOfLen(S, n) == { s \in SeqsUpTo(S, n) : Len(s) = n }

IncludeChild(f) == [tag |-> <<ns, "include">>, text |-> f, elts |-> <<>>]
OtherChild == [tag |-> <<ns, "comment">>, text |-> None, elts |-> <<>>]
ElementsChild(es) == [tag |-> <<ns, "elements">>, text |-> None, elts |-> es]

(* BodiesOf[c, e]: the bodies of at most c top-level children that hold   *)
(* at most e elements in all.                                              *)
BodiesOf[c \in 0..(MaxChildren), e \in 0..(MaxElts)] ==
    IF c = 0 THEN { <<>> }
    ELSE { <<>> }
         \cup { <<ch>> \o rest :
                  ch \in { IncludeChild(f) : f \in FileNames } \cup { OtherChild },
                  rest \in BodiesOf[c - 1, e] }
         \cup UNION { { <<ElementsChild(es)>> \o rest :
                          es \in SeqsOfLen(Elements, k), rest \in BodiesOf[c - 1, e - k] }
                      : k \in 0..e }

BodiesTable ==
    { <<c, e, BodiesOf[c, e]>> : c \in 0..MaxChildren, e \in 0..MaxElts }

Bodies(c, e) == (CHOOSE row \in BodiesTable : row[1] = c /\ row[2] = e)[3]

RECURSIVE EltCount(_)
EltCount(body) ==
    IF body = <<>> THEN 0 ELSE Len(Head(body).elts) + EltCount(Tail(body))

(* What et.parse finds under a file name: a document, or a file that      *)
(* cannot be read or parsed.                                               *)
Bad == [state |-> "bad", root |-> <<>>]
Good(root) == [state |-> "ok", root |-> root]

(* The forests over the file names S that hold at most c top-level         *)
(* children and e elements in all.                                         *)
RECURSIVE Forests(_, _, _)
Forests(S, c, e) ==
    IF S = {} THEN { <<>> }
    ELSE LET f == CHOOSE x \in S : TRUE
         IN  UNION { { [g \in {f} \cup DOMAIN rest |-> IF g = f THEN d ELSE rest[g]]
                         : rest \in Forests(S \ {f},
                                            c - Len(d.root), e - EltCount(d.root)) }
                     : d \in {Bad} \cup { Good(root) : root \in Bodies(c, e) } }

AllForests == Forests(FileNames, MaxChildren, MaxElts)

(* g is named by an include directive of the document f *)
IncludesIn(d, f, g) ==
    \E i \in DOMAIN d[f].root :
        d[f].root[i].tag = <<ns, "include">> /\ d[f].root[i].text = g

(* the file names the walk can come to: those of the list and those of     *)
(* the include directives of the documents it can come to                  *)
RECURSIVE ReachFrom(_, _, _)
ReachFrom(R, d, n) ==
    IF n = 0 THEN R
    ELSE ReachFrom(R \cup { g \in FileNames : \E f \in R : IncludesIn(d, f, g) }, d, n - 1)

Reach(fs, d) == ReachFrom({ fs[k] : k \in DOMAIN fs }, d, Cardinality(FileNames))

----------------------------------------------------------------------------
Init ==
    /\ SanIdle
    /\ files \in SeqsUpTo(FileNames, MaxFiles)
    /\ fileIdx = 1
    /\ docs \in AllForests
    /\ \A f \in FileNames \ Reach(files, docs) : docs[f] = Bad
    /\ stack = <<>>
    /\ links = <<>>
    /\ definedNodes = <<>>
    /\ usedNodes = <<>>
    /\ out = <<>>
    /\ pc = "start"
    /\ failure = "none"

(* A cluster opening that prints nothing before the document is parsed. *)
clusterOpeningLate(filename) == <<>>

(* lines 95-98 *)
clusterOpening(filename) ==
    << [t |-> "open", id |-> sanitize(filename)],
       [t |-> "label", text |-> filename],
       [t |-> "style", text |-> "dotted"] >>

Raise(exception) ==
    /\ pc' = "aborted"
    /\ failure' = exception

(* A call processFile(filename) made with the calls of callers active:     *)
(* lines 93-102.  The call fails with RecursionError when the interpreter  *)
(* has no frame left, before or after the cluster opening is printed;      *)
(* et.parse raises when the file cannot be read or parsed.                 *)
processFileEntry(filename, callers) ==
    IF Len(callers) >= RecursionLimit
    THEN /\ Raise("RecursionError")
         /\ stack' = callers
         /\ \/ UNCHANGED out
            \/ out' = out \o clusterOpening(filename)
    ELSE /\ out' = out \o clusterOpening(filename)
         /\ IF docs[filename].state = "bad"
            THEN /\ stack' = callers
                 /\ Raise("ParseError")
            ELSE /\ stack' = Append(callers,
                                    [file |-> filename, root |-> docs[filename].root,
                                     i |-> 1, j |-> 1])
                 /\ pc' = "walk"
                 /\ UNCHANGED failure

(* processFiles, lines 165-167 *)
Start ==
    /\ pc = "start"
    /\ out' = out \o << [t |-> "digraph"], [t |-> "size"], [t |-> "ratio"] >>
    /\ pc' = "files"
    /\ UNCHANGED <<files, fileIdx, docs, stack, links, definedNodes, usedNodes, failure>>
    /\ UNCHANGED sanVars

(* processFiles, lines 168-169: the next file of the list *)
ProcessFilesLoop ==
    /\ pc = "files"
    /\ fileIdx <= Len(files)
    /\ fileIdx' = fileIdx + 1
    /\ processFileEntry(files[fileIdx], <<>>)
    /\ UNCHANGED <<files, docs, links, definedNodes, usedNodes>>
    /\ UNCHANGED sanVars

Top == stack[Len(stack)]
Child == Top.root[Top.i]
Advanced(frame) ==
    IF Child.tag = <<ns, "elements">> /\ frame.j < Len(Child.elts)
    THEN [frame EXCEPT !.j = frame.j + 1]
    ELSE [frame EXCEPT !.i = frame.i + 1, !.j = 1]

(* An include step that passes over a file whose walk is under way. *)
IncludeStepGuarded ==
    /\ pc = "walk"
    /\ Top.i <= Len(Top.root)
    /\ Child.tag = <<ns, "include">>
    /\ IF \E k \in DOMAIN stack : stack[k].file = Child.text
       THEN /\ stack' = [stack EXCEPT ![Len(stack)] = Advanced(Top)]
            /\ UNCHANGED <<out, pc, failure>>
       ELSE processFileEntry(Child.text, [stack EXCEPT ![Len(stack)] = Advanced(Top)])
    /\ UNCHANGED <<files, fileIdx, docs, links, definedNodes, usedNodes>>
    /\ UNCHANGED sanVars

(* lines 105-107: an include directive, walked inline *)
IncludeStep ==
    /\ pc = "walk"
    /\ Top.i <= Len(Top.root)
    /\ Child.tag = <<ns, "include">>
    /\ processFileEntry(Child.text, [stack EXCEPT ![Len(stack)] = Advanced(Top)])
    /\ UNCHANGED <<files, fileIdx, docs, links, definedNodes, usedNodes>>
    /\ UNCHANGED sanVars

(* lines 109-111 with an empty elements block, and lines 142-143 *)
SkipStep ==
    /\ pc = "walk"
    /\ Top.i <= Len(Top.root)
    /\ \/ Child.tag = <<ns, "elements">> /\ Child.elts = <<>>
       \/ Child.tag \notin { <<ns, "include">>, <<ns, "elements">> }
    /\ stack' = [stack EXCEPT ![Len(stack)] = Advanced(Top)]
    /\ UNCHANGED <<files, fileIdx, docs, links, definedNodes, usedNodes, out, pc, failure>>
    /\ UNCHANGED sanVars

(* lines 111-140: one element of an elements block *)
ElementStep ==
    /\ pc = "walk"
    /\ Top.i <= Len(Top.root)
    /\ Child.tag = <<ns, "elements">>
    /\ Top.j <= Len(Child.elts)
    /\ LET elt == Child.elts[Top.j]
           calls == dispatch(elt)
       IN  /\ stack' = [stack EXCEPT ![Len(stack)] = Advanced(Top)]
           /\ IF elt.tag \in ignoredTags
              THEN UNCHANGED <<definedNodes, usedNodes, links, out, pc, failure>>
              ELSE /\ definedNodes' = addNodeDefined(definedNodes, elt)
                   /\ out' = out \o addNodePrints(elt)
                   /\ IF calls = <<>>
                      THEN UNCHANGED <<usedNodes, links, pc, failure>>
                      ELSE IF addLinkRaises(calls[1].src, calls[1].dest)
                      THEN /\ Raise("AttributeError")
                           /\ UNCHANGED <<usedNodes, links>>
                      ELSE /\ usedNodes' = addLinkUsed(usedNodes, calls[1].src, calls[1].dest)
                           /\ links' = addLinkLinks(links, calls[1].src, calls[1].dest,
                                                    calls[1].label)
                           /\ UNCHANGED <<pc, failure>>
    /\ UNCHANGED <<files, fileIdx, docs>>
    /\ UNCHANGED sanVars

(* A return that forgets the closing brace of the cluster. *)
ReturnStepNoClose ==
    /\ pc = "walk"
    /\ Top.i > Len(Top.root)
    /\ stack' = SubSeq(stack, 1, Len(stack) - 1)
    /\ pc' = IF Len(stack) = 1 THEN "files" ELSE "walk"
    /\ UNCHANGED <<files, fileIdx, docs, links, definedNodes, usedNodes, out, failure>>
    /\ UNCHANGED sanVars

(* lines 147-148: the end of a document *)
ReturnStep ==
    /\ pc = "walk"
    /\ Top.i > Len(Top.root)
    /\ out' = Append(out, [t |-> "close"])
    /\ stack' = SubSeq(stack, 1, Len(stack) - 1)
    /\ pc' = IF Len(stack) = 1 THEN "files" ELSE "walk"
    /\ UNCHANGED <<files, fileIdx, docs, links, definedNodes, usedNodes, failure>>
    /\ UNCHANGED sanVars

InSeq(x, s) == \E k \in DOMAIN s : s[k] = x

(* A list of undefined nodes that keeps one entry for each identifier. *)
undefinedOnce(used, defined) ==
    LET Pick(k) == ~InSeq(used[k], defined) /\ \A m \in 1..(k - 1) : used[m] # used[k]
        F[k \in 0..Len(used)] ==
            IF k = 0 THEN <<>>
            ELSE IF Pick(k) THEN Append(F[k - 1], used[k]) ELSE F[k - 1]
    IN  F[Len(used)]

(* line 153: [ x for x in usedNodes if x not in definedNodes ] *)
undefinedList(used, defined) ==
    LET F[k \in 0..Len(used)] ==
            IF k = 0 THEN <<>>
            ELSE IF ~InSeq(used[k], defined) THEN Append(F[k - 1], used[k]) ELSE F[k - 1]
    IN  F[Len(used)]

(* addUndefinedNodes, lines 150-160, called at line 170 *)
AddUndefinedNodes ==
    /\ pc = "files"
    /\ fileIdx > Len(files)
    /\ LET undefined == undefinedList(usedNodes, definedNodes)
       IN  out' = IF Len(undefined) > 0
                  THEN out \o << [t |-> "open", id |-> <<"undefined">>],
                                 [t |-> "label", text |-> <<"Not defined in these files">>],
                                 [t |-> "style", text |-> "dotted"] >>
                           \o [k \in DOMAIN undefined |->
                                 outputNode(undefined[k], <<>>, <<"style=dashed,">>)]
                           \o << [t |-> "close"] >>
                  ELSE out
    /\ pc' = "links"
    /\ UNCHANGED <<files, fileIdx, docs, stack, links, definedNodes, usedNodes, failure>>
    /\ UNCHANGED sanVars

(* what print("\n".join(lnks)) prints: a line for each link, or one empty line *)
linkLines(lnks) ==
    IF lnks = <<>> THEN << [t |-> "blank"] >>
    ELSE [k \in DOMAIN lnks |-> [t |-> "edge", link |-> lnks[k]]]

(* processFiles, lines 171-172 *)
PrintLinks ==
    /\ pc = "links"
    /\ out' = out \o linkLines(links) \o << [t |-> "end"] >>
    /\ pc' = "done"
    /\ UNCHANGED <<files, fileIdx, docs, stack, links, definedNodes, usedNodes, failure>>
    /\ UNCHANGED sanVars

Next ==
    \/ Start
    \/ ProcessFilesLoop
    \/ IncludeStep
    \/ SkipStep
    \/ ElementStep
    \/ ReturnStep
    \/ AddUndefinedNodes
    \/ PrintLinks

Spec == Init /\ [][Next]_vars

(* The interpreter runs the program to its end: every step that can be     *)
(* taken is taken.                                                         *)
FairSpec == Spec /\ WF_vars(Next)

----------------------------------------------------------------------------
(* Reading the printed lines.                                              *)
IsOpen(line) == line.t = "open"
IsClose(line) == line.t = "close"
IsNode(line) == line.t = "node"
IsUndefinedOpen(line) == line.t = "open" /\ line.id = <<"undefined">>

(* the number of clusters open before line k is printed *)
Depth(o, k) ==
    Cardinality({ m \in 1..(k - 1) : IsOpen(o[m]) })
    - Cardinality({ m \in 1..(k - 1) : IsClose(o[m]) })

InUndefinedCluster(o, k) == \E u \in 1..k : IsUndefinedOpen(o[u])

NodeIds(o) ==
    LET nodes == SelectSeq(o, IsNode)
    IN  [k \in DOMAIN nodes |-> nodes[k].id]

(* the identifiers declared in the trailing cluster of undefined nodes *)
DeclaredUndefined(o) ==
    IF \E u \in DOMAIN o : IsUndefinedOpen(o[u])
    THEN LET u == CHOOSE v \in DOMAIN o : IsUndefinedOpen(o[v])
         IN  NodeIds(SubSeq(o, u + 1, Len(o)))
    ELSE <<>>

Header == << [t |-> "digraph"], [t |-> "size"], [t |-> "ratio"] >>

AtElement ==
    /\ pc = "walk"
    /\ Top.i <= Len(Top.root)
    /\ Child.tag = <<ns, "elements">>
    /\ Top.j <= Len(Child.elts)

CurElt == Child.elts[Top.j]

(* the elements of the documents the walk can come to *)
ReachableElts ==
    UNION { UNION { { docs[f].root[i].elts[j] : j \in DOMAIN docs[f].root[i].elts }
                    : i \in DOMAIN docs[f].root } : f \in Reach(files, docs) }

Includes(f, g) == IncludesIn(docs, f, g)

(* the include directives lead from a file of the list back to a document  *)
(* they have passed                                                        *)
CycleReachable ==
    \E f \in Reach(files, docs) :
        f \in ReachFrom({ g \in FileNames : Includes(f, g) }, docs, Cardinality(FileNames))

MissingChild(e) ==
    /\ e.tag \notin ignoredTags
    /\ dispatch(e) # <<>>
    /\ dispatch(e)[1].dest = None

----------------------------------------------------------------------------
(* C1: once the forest is walked, the cluster of undefined nodes declares  *)
(* the identifiers that are used and not defined, each of them once, in    *)
(* the order of their first use.                                           *)
C1_UndefinedDeclaredOnce ==
    pc \in {"links", "done"} =>
        DeclaredUndefined(out) = undefinedOnce(usedNodes, definedNodes)

(* C2: walking a recognised element whose expected child is absent appends *)
(* one edge, registers both endpoints and does not end the run.            *)
C2_MissingChildStillLinks ==
    [][ (AtElement /\ MissingChild(CurElt))
        => (/\ Len(links') = Len(links) + 1
            /\ Len(usedNodes') = Len(usedNodes) + 2
            /\ pc' # "aborted") ]_vars

(* C3, as stated: when a document cannot be parsed, nothing has been       *)
(* printed at the moment of the failure.                                   *)
C3_NothingPrintedAtParseFailure ==
    failure = "ParseError" => out = <<>>

(* C3, amended: when a document cannot be parsed the run stops there for   *)
(* good; the graph header and the opening of the cluster of that document  *)
(* are the first and the last lines printed, and no undefined cluster, no  *)
(* edge and no closing brace of the graph is printed.                      *)
C3_ParseFailureAborts ==
    failure = "ParseError" =>
        /\ pc = "aborted"
        /\ ~ENABLED Next
        /\ Len(out) >= 6
        /\ SubSeq(out, 1, 3) = Header
        /\ \E f \in FileNames :
              /\ docs[f].state = "bad"
              /\ SubSeq(out, Len(out) - 2, Len(out)) =
                    << [t |-> "open", id |-> sanitize(f)],
                       [t |-> "label", text |-> f],
                       [t |-> "style", text |-> "dotted"] >>
        /\ \A k \in DOMAIN out :
              /\ out[k].t \notin {"edge", "blank", "end"}
              /\ ~IsUndefinedOpen(out[k])

C3_Witness ==
    /\ failure = "ParseError"
    /\ Len(stack) >= 1
    /\ \E k \in DOMAIN out : IsNode(out[k])

(* C4: the lines of a completed run are the graph header, the clusters of  *)
(* the files in the order given, the cluster of undefined nodes if there   *)
(* is one, the edges in the order they were recorded, and the closing      *)
(* brace; at no time is an edge printed inside a cluster or before a node. *)
Rank(o, k) ==
    IF o[k].t \in {"digraph", "size", "ratio"} THEN 0
    ELSE IF o[k].t \in {"edge", "blank"} THEN 3
    ELSE IF o[k].t = "end" THEN 4
    ELSE IF InUndefinedCluster(o, k) THEN 2
    ELSE 1

TopLevelOpens(o) ==
    LET idx == { k \in DOMAIN o : IsOpen(o[k]) /\ Depth(o, k) = 0
                                    /\ ~IsUndefinedOpen(o[k]) }
        F[k \in 0..Len(o)] ==
            IF k = 0 THEN <<>>
            ELSE IF k \in idx THEN Append(F[k - 1], o[k].id) ELSE F[k - 1]
    IN  F[Len(o)]

EdgesPrinted(o) ==
    LET IsEdge(line) == line.t = "edge"
        edges == SelectSeq(o, IsEdge)
    IN  [k \in DOMAIN edges |-> edges[k].link]

RECURSIVE Render(_)
RECURSIVE RenderChildren(_)
RECURSIVE RenderElts(_)

RenderElts(es) ==
    IF es = <<>> THEN <<>>
    ELSE (IF Head(es).tag \in ignoredTags THEN <<>>
          ELSE <<outputNode(Head(es).name, Tail(Head(es).tag), <<>>)>>)
         \o RenderElts(Tail(es))

RenderChildren(cs) ==
    IF cs = <<>> THEN <<>>
    ELSE (IF Head(cs).tag = <<ns, "include">> THEN Render(Head(cs).text)
          ELSE IF Head(cs).tag = <<ns, "elements">> THEN RenderElts(Head(cs).elts)
          ELSE <<>>)
         \o RenderChildren(Tail(cs))

Render(f) ==
    clusterOpening(f) \o RenderChildren(docs[f].root) \o << [t |-> "close"] >>

RECURSIVE RenderFiles(_)
RenderFiles(fs) ==
    IF fs = <<>> THEN <<>> ELSE Render(Head(fs)) \o RenderFiles(Tail(fs))

C5_IncludeInline ==
    /\ \A k \in 1..(Len(out) + 1) : Depth(out, k) >= 0
    /\ pc = "walk" => Depth(out, Len(out) + 1) = Len(stack)
    /\ pc \in {"files", "links", "done"} =>
          /\ Len(out) >= 3 + Len(RenderFiles(SubSeq(files, 1, fileIdx - 1)))
          /\ SubSeq(out, 1, 3 + Len(RenderFiles(SubSeq(files, 1, fileIdx - 1))))
                = Header \o RenderFiles(SubSeq(files, 1, fileIdx - 1))
    /\ pc = "files" => Depth(out, Len(out) + 1) = 0

C5_Witness ==
    /\ pc = "done"
    /\ \E a \in DOMAIN out : \E b \in DOMAIN out :
          /\ a < b
          /\ IsNode(out[a])
          /\ IsOpen(out[b])
          /\ Depth(out, b) = 1

(* C6: walking an element that is not ignored and whose kind holds the     *)
(* word "simulated" anywhere records one edge, labelled "uses", from its   *)
(* name to the text of its keyboard_mouse_proxy child.                     *)
C6_SimulatedAnywhereLinks ==
    [][ (AtElement /\ CurElt.tag \notin ignoredTags
           /\ Contains(<<"simulated">>, Tail(CurElt.tag)))
        => links' = Append(links,
                           [src |-> sanitize(CurElt.name),
                            dest |-> sanitize(CurElt.kids.keyboard_mouse_proxy),
                            label |-> <<"uses">>]) ]_vars

(* C7: walking an element of an ignored kind changes neither the defined   *)
(* nodes, nor the used nodes, nor the edges, nor the output, whatever      *)
(* children it has.                                                        *)
IgnoredKinds ==
    { <<ns, "input", "manager">>, <<ns, "display", "system">>,
      <<ns, "corba", "remote", "reconfig">>, <<ns, "display", "window">>,
      <<ns, "cluster", "node">>, <<ns, "cluster", "manager">>,
      <<ns, "start", "barrier", "plugin">>, <<ns, "application", "data">> }

C7_IgnoredLeavesNoTrace ==
    [][ (AtElement /\ CurElt.tag \in IgnoredKinds)
        => UNCHANGED <<definedNodes, usedNodes, links, out>> ]_vars

C7_Witness ==
    /\ pc = "done"
    /\ \E e \in ReachableElts :
          /\ e.tag \in IgnoredKinds
          /\ e.kids.device # None
          /\ e.kids.keyboard_mouse_proxy # None

(* C8: the result of sanitize holds no space, slash, backslash, dot or     *)
(* dash, also when taking ".jconf" out joins its neighbours into a new     *)
(* ".jconf".                                                               *)
C8_SanitizedHasNoBadChar ==
    sanPc \in {"used", "printed"} =>
        \A k \in DOMAIN sanOut : sanOut[k] \notin BadChars

C8_Witness ==
    /\ sanPc = "used"
    /\ sanName = <<".", "j", "c">> \o DotJconf \o <<"o", "n", "f">>
    /\ sanOut = <<"_", "j", "c", "o", "n", "f">>

(* C9: every run ends.  When the include directives form no cycle, every  *)
(* document parses and no expected child is missing, it ends with the      *)
(* closing brace of the graph as its last line; when they form a cycle     *)
(* that a file of the list leads to, it ends at the recursion limit (or    *)
(* at an earlier failure) with no edge and no closing brace of the graph   *)
(* printed.                                                                *)
C9_Completed ==
    /\ pc = "done"
    /\ ~CycleReachable
    /\ out[Len(out)].t = "end"

C9_Failed ==
    /\ pc = "aborted"
    /\ \/ failure = "ParseError" /\ \E f \in Reach(files, docs) : docs[f].state = "bad"
       \/ failure = "AttributeError" /\ \E e \in ReachableElts : MissingChild(e)
       \/ failure = "RecursionError" /\ CycleReachable
    /\ \A k \in DOMAIN out : out[k].t \notin {"edge", "blank", "end"}

C10_SanitizeIdempotent ==
    sanPc = "printed" => sanPrinted = sanOut

C10_Witness ==
    /\ sanPc = "printed"
    /\ sanName # sanOut
    /\ \E k \in DOMAIN sanName : sanName[k] = "."
    /\ sanOut # <<>>

====
